---- MODULE Spec2Model ----
(***************************************************************************)
(* Model of src/app.py, the technical-assistance dashboard: one render     *)
(* pass of the script from the upload widget to the reload script.         *)
(*                                                                         *)
(* Text is modelled as a sequence of one-character strings, so that        *)
(* strip(), lower(), replace() and substring search are computed and not   *)
(* assumed.  A missing value (NaN) is the one-element sequence NA.         *)
(***************************************************************************)
EXTENDS Integers, Sequences, FiniteSets, TLC

VARIABLES
    pc,                   \* position of the script in the current render pass
    uploaded_file,        \* the file held by the upload widget (line 27)
    df,                   \* the loaded table (line 73), derived columns included
    col_status,           \* index of the Status column in df.columns, 0 = None
    col_departamento,     \* index of the Department column, 0 = None
    col_data,             \* index of the Date column, 0 = None
    todos_status,         \* sorted distinct non-empty Status Values (line 120)
    todos_departamentos,  \* sorted distinct non-empty Department Values (line 127)
    selecionar_todos_dept,    \* checkbox "select all departments" (line 141)
    selecionar_todos_status,  \* checkbox "select all statuses" (line 162)
    dept_selecionados,    \* selected departments (lines 137-154)
    status_selecionados,  \* selected statuses (lines 162-172)
    periodo,              \* selected period label (lines 177-184)
    busca,                \* free-text query (line 190)
    agora,                \* value of datetime.now() read on line 228, in half days
    erro_data,            \* where the date-filter try block raised, "none" if nowhere
    df_status,            \* df_filtrado as it leaves the status filter (line 204)
    df_periodo,           \* df_filtrado as it leaves the period filter (line 234)
    df_filtrado,          \* the Filtered Table (line 243)
    contagem_status,      \* Status Counts (line 251)
    csv,                  \* the data of the download button, as lines (line 600)
    tela                  \* the set of elements rendered in this pass

vars == <<pc, uploaded_file, df, col_status, col_departamento, col_data,
          todos_status, todos_departamentos, selecionar_todos_dept,
          selecionar_todos_status, dept_selecionados,
          status_selecionados, periodo, busca, agora, erro_data, df_status,
          df_periodo, df_filtrado, contagem_status, csv, tela>>

----------------------------------------------------------------------------
(* Bounds of the model *)

MaxRows == 2
MaxCols == 3

----------------------------------------------------------------------------
(* Text *)

NA == <<"NaN">>

\* The characters of the model in code-point order (the order sorted() and
\* sort_index() use on str).
Alphabet ==
    <<" ", "(", "+", "-", ".", "/", "0", "1", "2", "3", "4", "5", "6", "7", "8", "9", ":",
      "A", "B", "C", "D", "E", "H", "I", "N", "O", "R", "S", "T", "U",
      "_", "a", "b", "c", "d", "e", "f", "g", "h", "i", "l", "m", "n", "o", "p",
      "q", "r", "s", "t", "u", "v", "x", "z", "Ã", "Ç", "á", "ã", "ç", "í", "õ">>

Ord(c) == CHOOSE i \in 1..Len(Alphabet) : Alphabet[i] = c

UpperChars == <<"A", "B", "C", "D", "E", "H", "I", "N", "O", "R", "S", "T", "U", "Ã", "Ç">>
LowerChars == <<"a", "b", "c", "d", "e", "h", "i", "n", "o", "r", "s", "t", "u", "ã", "ç">>

LowerChar(c) ==
    IF \E i \in 1..Len(UpperChars) : UpperChars[i] = c
    THEN LowerChars[CHOOSE i \in 1..Len(UpperChars) : UpperChars[i] = c]
    ELSE c

\* str.lower()
Lower(s) == [i \in 1..Len(s) |-> LowerChar(s[i])]

\* str.replace(a, b) for one-character a and b
Replace(s, a, b) == [i \in 1..Len(s) |-> IF s[i] = a THEN b ELSE s[i]]

RECURSIVE LStrip(_)
LStrip(s) == IF s # <<>> /\ Head(s) = " " THEN LStrip(Tail(s)) ELSE s

RECURSIVE RStrip(_)
RStrip(s) ==
    IF s # <<>> /\ s[Len(s)] = " " THEN RStrip(SubSeq(s, 1, Len(s) - 1)) ELSE s

\* str.strip()
Strip(s) == RStrip(LStrip(s))

\* `sub in s`
Contains(s, sub) ==
    \E i \in 0..(Len(s) - Len(sub)) : SubSeq(s, i + 1, i + Len(sub)) = sub

\* s < t in the order of str
RECURSIVE StrLess(_, _)
StrLess(s, t) ==
    IF t = <<>> THEN FALSE
    ELSE IF s = <<>> THEN TRUE
    ELSE IF Head(s) = Head(t) THEN StrLess(Tail(s), Tail(t))
    ELSE Ord(Head(s)) < Ord(Head(t))

\* str(value) of a cell: astype(str) turns a missing value into 'nan'
AsStr(v) == IF v = NA THEN <<"n", "a", "n">> ELSE v

\* sorted(set)
RECURSIVE SortedSeq(_)
SortedSeq(S) ==
    IF S = {} THEN <<>>
    ELSE LET m == CHOOSE x \in S : \A y \in S : y = x \/ StrLess(x, y)
         IN  <<m>> \o SortedSeq(S \ {m})

Range(q) == {q[i] : i \in 1..Len(q)}

----------------------------------------------------------------------------
(* Tables.  A table is [columns |-> sequence of column names, rows |->      *)
(* sequence of rows]; a row is [cells |-> one value per column, dt |-> the  *)
(* value of the datetime column data_convertida, NoDt while the table has   *)
(* no such column].                                                         *)

NaT == 0 - 1
NoDt == 0 - 2

Row(cells) == [cells |-> cells, dt |-> NoDt]

ColIndex(t, name) ==
    IF \E j \in 1..Len(t.columns) : t.columns[j] = name
    THEN CHOOSE j \in 1..Len(t.columns) : t.columns[j] = name
    ELSE 0

HasColumn(t, name) == ColIndex(t, name) # 0

Cell(t, r, name) == r.cells[ColIndex(t, name)]

\* df[name] = values: append the column name and one value per row
AddColumn(t, name, values) ==
    [columns |-> Append(t.columns, name),
     rows    |-> [i \in 1..Len(t.rows) |->
                    [t.rows[i] EXCEPT !.cells = Append(@, values[i])]]]

\* df[mask]: the rows of t that are in the set keep, in their order
FilterRows(t, keep) == [t EXCEPT !.rows = SelectSeq(t.rows, LAMBDA r : r \in keep)]

\* the rows of t as a set
RowsOf(t) == {t.rows[i] : i \in 1..Len(t.rows)}

\* df.dropna(axis=1, how='all'), line 66: a column stays iff some row has a
\* value in it (with no row at all, no column stays)
KeptCols(t) ==
    SelectSeq([j \in 1..Len(t.columns) |-> j],
              LAMBDA j : \E i \in 1..Len(t.rows) : t.rows[i].cells[j] # NA)

DropEmptyCols(t) ==
    LET keep == KeptCols(t)
    IN  [columns |-> [k \in 1..Len(keep) |-> t.columns[keep[k]]],
         rows    |-> [i \in 1..Len(t.rows) |->
                        [t.rows[i] EXCEPT
                           !.cells = [k \in 1..Len(keep) |-> t.rows[i].cells[keep[k]]]]]]

\* df.empty, line 75
Empty(t) == t.rows = <<>> \/ t.columns = <<>>

NoTable == [columns |-> <<>>, rows |-> <<>>]

----------------------------------------------------------------------------
(* The uploaded files of the model *)

n_Status   == <<"S", "t", "a", "t", "u", "s">>
n_SITUACAO == <<"S", "I", "T", "U", "A", "Ç", "Ã", "O">>
n_Estado   == <<" ", "E", "s", "t", "a", "d", "o">>
n_Setor    == <<"S", "e", "t", "o", "r">>
n_Data     == <<"D", "a", "t", "a">>
n_Cliente  == <<"C", "l", "i", "e", "n", "t", "e">>

v_Aberta    == <<"A", "b", "e", "r", "t", "a">>
v_AbertaSp  == <<"A", "b", "e", "r", "t", "a", " ">>
v_Concluida == <<"C", "o", "n", "c", "l", "u", "í", "d", "a">>
v_Blank     == <<" ">>
v_TI        == <<"T", "I">>
v_RH        == <<"R", "H">>
v_Ana       == <<"A", "n", "a">>
v_Bruno     == <<"B", "r", "u", "n", "o">>
v_Carla     == <<"C", "a", "r", "l", "a">>
v_Dana      == <<"D", "a", "n", "a">>
v_x         == <<"x">>

d_0103 == <<"0", "1", "/", "0", "3", "/", "2", "0", "2", "4">>
d_1502 == <<"1", "5", "/", "0", "2", "/", "2", "0", "2", "4">>
d_2002 == <<"2", "0", "/", "0", "2", "/", "2", "0", "2", "4">>
d_2702 == <<"2", "7", "/", "0", "2", "/", "2", "0", "2", "4">>
d_0301 == <<"0", "3", "/", "0", "1", "/", "2", "0", "2", "4">>

\* A ticket of the uploaded sheet, by field
Ticket(s, d, t, c) == [s |-> s, d |-> d, t |-> t, c |-> c]

t_Ana   == Ticket(v_Aberta, v_TI, d_0103, v_Ana)
t_Bruno == Ticket(v_Concluida, v_RH, d_2702, v_Bruno)
t_Vazio == Ticket(v_Blank, NA, v_x, NA)
t_Dana  == Ticket(v_AbertaSp, v_RH, d_0301, v_Dana)

TicketPool == {t_Ana, t_Bruno, t_Vazio, t_Dana}

\* the field a column of the sheet holds
FieldOf(t, name) ==
    IF name \in {n_Status, n_SITUACAO, n_Estado} THEN t.s
    ELSE IF name = n_Setor THEN t.d
    ELSE IF name = n_Data THEN t.t
    ELSE t.c

Sheet(columns, tickets) ==
    [columns |-> columns,
     rows    |-> [i \in 1..Len(tickets) |->
                    Row([j \in 1..Len(columns) |-> FieldOf(tickets[i], columns[j])])]]

HeaderPool ==
    { <<n_Status, n_Setor, n_Data, n_Cliente>>,
      <<n_Cliente, n_SITUACAO, n_Data>>,
      <<n_Status, n_Setor, n_Cliente>>,
      <<n_Setor, n_Cliente>> }

SeqsUpTo(S, n) == UNION {[1..k -> S] : k \in 0..n}

\* offsets: whether the date cells of the file carry no UTC offset ("naive"),
\* all the same offset ("aware") or different offsets ("mixed"); the text of
\* the offset itself is left out of the cells
File(name, encoding, valid, offsets, table) ==
    [name |-> name, encoding |-> encoding, valid |-> valid, offsets |-> offsets,
     table |-> table]

\* the scenario of the specification: Status,Setor,Data,Cliente with Ana, Bruno, Carla
ScenarioSheet ==
    Sheet(<<n_Status, n_Setor, n_Data, n_Cliente>>,
          <<t_Ana, Ticket(v_Concluida, v_RH, d_1502, v_Bruno),
            Ticket(v_Aberta, v_TI, d_2002, v_Carla)>>)

\* a sheet with a date inside every window, a date on the edge of the 7-day
\* window and a date that does not parse
MixedSheet ==
    Sheet(<<n_Status, n_Setor, n_Data, n_Cliente>>, <<t_Ana, t_Bruno, t_Vazio>>)

v_007      == <<"0", "0", "7">>
v_SilvaAna == <<"S", "i", "l", "v", "a", ",", " ", "A", "n", "a">>

\* a sheet with a client code made of digits, a client name with a comma and
\* a ticket without department
CodigoSheet ==
    Sheet(<<n_Status, n_Setor, n_Cliente>>,
          <<Ticket(v_Aberta, v_TI, NA, v_007),
            Ticket(v_Concluida, v_RH, NA, v_SilvaAna),
            Ticket(v_Aberta, NA, NA, v_Carla)>>)

\* a sheet whose second ticket has a text that is no date in the Date column
SemDataSheet ==
    Sheet(<<n_Status, n_Setor, n_Data, n_Cliente>>,
          <<t_Ana, Ticket(v_Concluida, v_RH, v_x, v_Bruno)>>)

Files ==
    { File(".csv", "utf-8", TRUE, "naive", Sheet(h, q)) :
          h \in HeaderPool, q \in SeqsUpTo(TicketPool, MaxRows) }
    \cup { File(".csv", "utf-8", TRUE, "naive", ScenarioSheet),
           File(".csv", "utf-8", TRUE, "naive", MixedSheet),
           File(".csv", "utf-8", TRUE, "aware", ScenarioSheet),
           File(".csv", "utf-8", TRUE, "mixed", ScenarioSheet),
           File(".csv", "utf-8", TRUE, "aware", SemDataSheet),
           File(".csv", "utf-8", TRUE, "naive", CodigoSheet),
           File(".csv", "latin1", TRUE, "naive",
                Sheet(<<n_Status, n_Cliente>>, <<t_Bruno>>)),
           File(".csv", "utf-8", FALSE, "naive", NoTable),
           File(".xlsx", "utf-8", TRUE, "naive",
                Sheet(<<n_Status, n_Setor>>, <<t_Ana>>)),
           File(".xlsx", "utf-8", FALSE, "naive", NoTable) }

NoFile == File("", "", FALSE, "naive", NoTable)

----------------------------------------------------------------------------
(* carregar_dados, lines 50-71 *)

Encodings == <<"utf-8", "latin1", "iso-8859-1">>

\* pd.read_csv(file, encoding=e) parses the stream from its start: the file
\* is well formed and its bytes decode (any byte decodes in latin1)
Decodes(file, e) == file.valid /\ (e = "utf-8" => file.encoding = "utf-8")

None == [ok |-> FALSE, table |-> NoTable]
Loaded(table) == [ok |-> TRUE, table |-> table]

\* The loop of lines 56-61.  It does not seek(0) between attempts, so an
\* attempt after a failed one sees the whole stream only if the failed read
\* left it at its start (rewound); else it finds no data and fails too.
\* When every attempt fails df stays unbound and line 66 raises.
RECURSIVE TryEncodings(_, _, _)
TryEncodings(file, k, rewound) ==
    IF k > Len(Encodings) THEN None
    ELSE IF Decodes(file, Encodings[k]) /\ (k = 1 \/ rewound)
         THEN Loaded(file.table)
         ELSE TryEncodings(file, k + 1, rewound)

\* pd.read_excel(file), line 63
ReadExcel(file) == IF file.valid THEN Loaded(file.table) ELSE None

carregar_dados(file, rewound) ==
    LET r == IF file.name = ".csv" THEN TryEncodings(file, 1, rewound)
             ELSE ReadExcel(file)
    IN  IF r.ok THEN Loaded(DropEmptyCols(r.table)) ELSE None

----------------------------------------------------------------------------
(* Column identification, lines 84-110 *)

k_status       == <<"s", "t", "a", "t", "u", "s">>
k_situacao     == <<"s", "i", "t", "u", "a", "c", "a", "o">>
k_situacao2    == <<"s", "i", "t", "u", "a", "c", "ã", "o">>
k_estado       == <<"e", "s", "t", "a", "d", "o">>
k_departamento == <<"d", "e", "p", "a", "r", "t", "a", "m", "e", "n", "t", "o">>
k_setor        == <<"s", "e", "t", "o", "r">>
k_area         == <<"a", "r", "e", "a">>
k_area2        == <<"á", "r", "e", "a">>
k_dept         == <<"d", "e", "p", "t">>
k_unidade      == <<"u", "n", "i", "d", "a", "d", "e">>
k_equipe       == <<"e", "q", "u", "i", "p", "e">>
k_time         == <<"t", "i", "m", "e">>
k_data         == <<"d", "a", "t", "a">>
k_dt           == <<"d", "t", "_">>
k_abertura     == <<"a", "b", "e", "r", "t", "u", "r", "a">>
k_entrada      == <<"e", "n", "t", "r", "a", "d", "a">>
k_registro     == <<"r", "e", "g", "i", "s", "t", "r", "o">>

StatusKeywords == {k_status, k_situacao, k_situacao2, k_estado}
DeptKeywords ==
    {k_departamento, k_setor, k_area, k_area2, k_dept, k_unidade, k_equipe, k_time}
DataKeywords == {k_data, k_dt, k_abertura, k_entrada, k_registro}

\* str(col).strip().lower().replace('ç','c').replace('ã','a').replace('õ','o')
col_lower(col) ==
    Replace(Replace(Replace(Lower(Strip(col)), "ç", "c"), "ã", "a"), "õ", "o")

\* str(col).strip().lower(), line 107
col_lower_data(col) == Lower(Strip(col))

\* the test of lines 87, 100 and 108 for one column
ColMatches(role, col) ==
    CASE role = "status" ->
             \E keyword \in StatusKeywords : Contains(col_lower(col), keyword)
      [] role = "departamento" ->
             \E keyword \in DeptKeywords : Contains(col_lower(col), keyword)
      [] OTHER ->
             \E keyword \in DataKeywords : Contains(col_lower_data(col), keyword)

\* a loop that keeps the last matching column (no break)
RECURSIVE IdentificarSemBreak(_, _, _)
IdentificarSemBreak(columns, role, j) ==
    IF j > Len(columns) THEN 0
    ELSE LET rest == IdentificarSemBreak(columns, role, j + 1)
         IN  IF rest # 0 THEN rest
             ELSE IF ColMatches(role, columns[j]) THEN j ELSE 0

\* for col in df.columns: if <match>: col_x = col; break  -- from column j on;
\* 0 is None
RECURSIVE Identificar(_, _, _)
Identificar(columns, role, j) ==
    IF j > Len(columns) THEN 0
    ELSE IF ColMatches(role, columns[j]) THEN j
    ELSE Identificar(columns, role, j + 1)

----------------------------------------------------------------------------
(* Derived columns, lines 116-129 *)

c_status_normalizado ==
    <<"s", "t", "a", "t", "u", "s", "_", "n", "o", "r", "m", "a", "l", "i", "z",
      "a", "d", "o">>
c_departamento_normalizado ==
    <<"d", "e", "p", "a", "r", "t", "a", "m", "e", "n", "t", "o", "_", "n", "o",
      "r", "m", "a", "l", "i", "z", "a", "d", "o">>
c_data_convertida ==
    <<"d", "a", "t", "a", "_", "c", "o", "n", "v", "e", "r", "t", "i", "d", "a">>

v_nan == <<"n", "a", "n">>
v_NaoEspecificado ==
    <<"N", "ã", "o", " ", "e", "s", "p", "e", "c", "i", "f", "i", "c", "a", "d", "o">>
v_Todos == <<"T", "o", "d", "o", "s">>

\* a normalisation that leaves the blanks around the value
NormalizarSemStrip(v, default) == IF v = NA THEN default ELSE v

\* .fillna(default).astype(str).str.strip()
Normalizar(v, default) == Strip(IF v = NA THEN default ELSE v)

\* line 116
ComStatus(t, cs) ==
    AddColumn(t, c_status_normalizado,
              [i \in 1..Len(t.rows) |-> Normalizar(t.rows[i].cells[cs], <<>>)])

\* lines 124-129
ComDepartamento(t, cd) ==
    AddColumn(t, c_departamento_normalizado,
              [i \in 1..Len(t.rows) |->
                  IF cd # 0 THEN Normalizar(t.rows[i].cells[cd], v_NaoEspecificado)
                  ELSE v_Todos])

status_normalizado(t, r) == Cell(t, r, c_status_normalizado)
departamento_normalizado(t, r) == Cell(t, r, c_departamento_normalizado)

\* sorted([s for s in column.unique() if s and s != 'nan' and s != ''])
Todos(t, name) ==
    SortedSeq({Cell(t, t.rows[i], name) : i \in 1..Len(t.rows)} \ {<<>>, v_nan})

----------------------------------------------------------------------------
(* Dates.  An instant is a number of half days since 2023-12-31 00:00, so   *)
(* that 2024-01-01 00:00 is 2 and noon of the same day is 3; the model      *)
(* knows the calendar of 2024.                                              *)

DaysIn == <<31, 29, 31, 30, 31, 30, 31, 31, 30, 31, 30, 31>>

RECURSIVE DaysBefore(_)
DaysBefore(m) == IF m <= 1 THEN 0 ELSE DaysIn[m - 1] + DaysBefore(m - 1)

ValidDate(d, m) == m \in 1..12 /\ d \in 1..DaysIn[m]

Midnight(d, m) == 2 * (DaysBefore(m) + d)

Digits == {"0", "1", "2", "3", "4", "5", "6", "7", "8", "9"}
Digit(c) == Ord(c) - Ord("0")
Num2(a, b) == 10 * Digit(a) + Digit(b)

IsDateText(v) ==
    /\ Len(v) = 10
    /\ v[3] = "/" /\ v[6] = "/"
    /\ \A i \in {1, 2, 4, 5, 7, 8, 9, 10} : v[i] \in Digits
    /\ SubSeq(v, 7, 10) = <<"2", "0", "2", "4">>

\* reading "a/b/2024" with the month first
ParseMonthFirst(v) ==
    IF v # NA /\ IsDateText(v) /\ ValidDate(Num2(v[4], v[5]), Num2(v[1], v[2]))
    THEN Midnight(Num2(v[4], v[5]), Num2(v[1], v[2]))
    ELSE NaT

\* a conversion that reads "a/b/2024" with the month first when it can
to_datetime_mes_primeiro(v) ==
    IF ParseMonthFirst(v) # NaT THEN ParseMonthFirst(v)
    ELSE IF v # NA /\ IsDateText(v) /\ ValidDate(Num2(v[1], v[2]), Num2(v[4], v[5]))
         THEN Midnight(Num2(v[1], v[2]), Num2(v[4], v[5]))
         ELSE NaT

\* pd.to_datetime(value, errors='coerce', dayfirst=True), lines 211-215, for
\* one cell: "a/b/2024" is day a of month b when that is a date, else month
\* a, day b when that is one, else NaT
to_datetime(v) ==
    IF v # NA /\ IsDateText(v) /\ ValidDate(Num2(v[1], v[2]), Num2(v[4], v[5]))
    THEN Midnight(Num2(v[1], v[2]), Num2(v[4], v[5]))
    ELSE ParseMonthFirst(v)

MonthOf(ts) == CHOOSE m \in 1..12 :
                   DaysBefore(m) < ts \div 2 /\ ts \div 2 <= DaysBefore(m) + DaysIn[m]
DayOf(ts) == ts \div 2 - DaysBefore(MonthOf(ts))

\* .dt.date, line 489: the calendar day of an instant
data_apenas(ts) == ts \div 2

DigitChar(n) == Alphabet[Ord("0") + n]
Str2(n) == <<DigitChar(n \div 10), DigitChar(n % 10)>>

\* str(value) of a cell of the datetime column
DateStr(ts, offsets) ==
    IF ts = NaT THEN <<"N", "a", "T">>
    ELSE <<"2", "0", "2", "4", "-">> \o Str2(MonthOf(ts)) \o <<"-">> \o Str2(DayOf(ts))
         \o (IF offsets = "naive" THEN <<>>
             ELSE <<" ", "0", "0", ":", "0", "0", ":", "0", "0", "+", "0", "0", ":",
                    "0", "0">>)

----------------------------------------------------------------------------
(* Filters, lines 196-243 *)

TodoPeriodo == "Todo o período"
Periodos ==
    <<TodoPeriodo, "Últimos 7 dias", "Últimos 15 dias", "Últimos 30 dias",
      "Últimos 90 dias">>

\* lines 221-226
dias_map ==
    [p \in {"Últimos 7 dias", "Últimos 15 dias", "Últimos 30 dias", "Últimos 90 dias"} |->
        CASE p = "Últimos 7 dias" -> 7
          [] p = "Últimos 15 dias" -> 15
          [] p = "Últimos 30 dias" -> 30
          [] OTHER -> 90]

\* datetime.now() - timedelta(days=dias_qtd), line 228
data_limite(now, p) == now - 2 * dias_map[p]

\* lines 197-200
FiltroDepartamento(t, cd, sel) ==
    IF cd # 0 /\ sel # <<>>
    THEN FilterRows(t, {r \in RowsOf(t) : departamento_normalizado(t, r) \in Range(sel)})
    ELSE t

\* lines 203-204
FiltroStatus(t, sel) ==
    IF sel # <<>>
    THEN FilterRows(t, {r \in RowsOf(t) : status_normalizado(t, r) \in Range(sel)})
    ELSE t

\* lines 211-215: the column data_convertida
ComDataConvertida(t, cdata) ==
    [columns |-> Append(t.columns, c_data_convertida),
     rows    |-> [i \in 1..Len(t.rows) |->
                    [t.rows[i] EXCEPT !.dt = to_datetime(t.rows[i].cells[cdata])]]]

\* line 218
DropNaT(t) == FilterRows(t, {r \in RowsOf(t) : r.dt # NaT})

\* line 231
DentroDoPeriodo(t, now, p) ==
    FilterRows(t, {r \in RowsOf(t) : r.dt >= data_limite(now, p)})

\* Where the try block of lines 209-231 can raise on table t.  Dates without
\* offset never raise.  Dates that all carry the same offset give a
\* tz-aware column, and comparing it with the naive datetime.now() of line
\* 231 raises.  Dates with different offsets raise in to_datetime (line 211)
\* or, where to_datetime returns them as objects, in the comparison.
ErrosData(t, cdata, offsets) ==
    LET n == Cardinality({i \in 1..Len(t.rows) : to_datetime(t.rows[i].cells[cdata]) # NaT})
    IN  IF offsets = "naive" \/ n = 0 THEN {"none"}
        ELSE IF offsets = "mixed" /\ n >= 2 THEN {"convert", "compare"}
        ELSE {"compare"}

\* lines 207-234; err says where the try block raised
FiltroPeriodo(t, cdata, p, now, err) ==
    IF cdata # 0 /\ p # TodoPeriodo
    THEN IF err = "convert" THEN t
         ELSE IF err = "compare" THEN DropNaT(ComDataConvertida(t, cdata))
         ELSE DentroDoPeriodo(DropNaT(ComDataConvertida(t, cdata)), now, p)
    ELSE t

\* re.compile(pattern) succeeds; of the characters of the model only "("
\* opens a group, and no query of the model closes one
RegexValid(pattern) == "(" \notin Range(pattern)

\* re.search(pattern, s): "." matches any character, every other character
\* of the model matches itself
RegexSearch(pattern, s) ==
    \E i \in 0..(Len(s) - Len(pattern)) :
        \A k \in 1..Len(pattern) : pattern[k] = "." \/ pattern[k] = s[i + k]

\* df_filtrado.astype(str) of one row: the text of every cell
RowTexts(t, r, offsets) ==
    {AsStr(r.cells[j]) : j \in 1..Len(r.cells)}
    \cup (IF HasColumn(t, c_data_convertida) THEN {DateStr(r.dt, offsets)} ELSE {})

\* row.str.lower().str.contains(busca_lower, na=False).any(), lines 239-242
BuscaMatch(t, r, q, offsets) ==
    \E text \in RowTexts(t, r, offsets) : RegexSearch(Lower(q), Lower(text))

\* lines 237-243, for a query the regex engine accepts
FiltroBusca(t, q, offsets) ==
    IF q # <<>>
    THEN FilterRows(t, {r \in RowsOf(t) : BuscaMatch(t, r, q, offsets)})
    ELSE t

\* lines 237-243 raise re.error: the pattern is compiled when the first row
\* is searched
BuscaFalha(t, q) == q # <<>> /\ t.rows # <<>> /\ ~RegexValid(Lower(q))

----------------------------------------------------------------------------
(* Aggregation and rendering, lines 248-625 *)

StatusOf(t) == {status_normalizado(t, t.rows[i]) : i \in 1..Len(t.rows)}
DeptsOf(t) == {departamento_normalizado(t, t.rows[i]) : i \in 1..Len(t.rows)}

\* the number of rows of t with Status Value v
CountStatus(t, v) ==
    Cardinality({i \in 1..Len(t.rows) : status_normalizado(t, t.rows[i]) = v})

\* value_counts() that leaves out the rows with an empty Status Value
ContagemSemVazios(t) ==
    LET keys == SortedSeq(StatusOf(t) \ {<<>>})
    IN  [k \in 1..Len(keys) |->
            [status     |-> keys[k],
             quantidade |-> CountStatus(t, keys[k])]]

\* df_filtrado['status_normalizado'].value_counts().sort_index(), line 251
Contagem(t) ==
    LET keys == SortedSeq(StatusOf(t))
    IN  [k \in 1..Len(keys) |->
            [status     |-> keys[k],
             quantidade |-> CountStatus(t, keys[k])]]

\* the groups of df_temporal.groupby(['data_apenas', 'status_normalizado']),
\* line 492
df_evolucao(t) ==
    {<<data_apenas(t.rows[i].dt), status_normalizado(t, t.rows[i])>> :
        i \in 1..Len(t.rows)}

\* the condition of lines 486 and 494 for the temporal chart
TemTemporal(t, cdata) ==
    /\ cdata # 0
    /\ HasColumn(t, c_data_convertida)
    /\ Len(t.rows) > 0
    /\ Cardinality(df_evolucao(t)) > 1

\* a page that draws the status chart whatever the number of rows
ElementosSemGuarda(t, contagem, cd, cdata) ==
    (IF Len(contagem) > 0 THEN {"cards_status"} ELSE {"aviso_sem_registros"})
    \cup (IF cd # 0 /\ Len(t.rows) > 0 THEN {"cards_departamento"} ELSE {})
    \cup {"grafico_status"}
    \cup (IF cd # 0 /\ Len(t.rows) > 0 /\ Cardinality(DeptsOf(t)) > 1
          THEN {"grafico_departamento", "grafico_comparativo"} ELSE {})
    \cup (IF TemTemporal(t, cdata) THEN {"grafico_temporal"} ELSE {})
    \cup {"tabela", "download", "reload"}

\* the elements lines 276-625 put on the page for Filtered Table t
Elementos(t, contagem, cd, cdata) ==
    (IF Len(contagem) > 0 THEN {"cards_status"} ELSE {"aviso_sem_registros"})
    \cup (IF cd # 0 /\ Len(t.rows) > 0 THEN {"cards_departamento"} ELSE {})
    \cup (IF Len(t.rows) > 0
          THEN (IF Len(contagem) > 0 THEN {"grafico_status"} ELSE {})
               \cup (IF cd # 0 /\ Cardinality(DeptsOf(t)) > 1
                     THEN {"grafico_departamento"}
                     ELSE IF Len(contagem) > 0 THEN {"grafico_barras"} ELSE {})
          ELSE {})
    \cup (IF cd # 0 /\ Len(t.rows) > 0 /\ Cardinality(DeptsOf(t)) > 1
          THEN {"grafico_comparativo"} ELSE {})
    \cup (IF TemTemporal(t, cdata) THEN {"grafico_temporal"} ELSE {})
    \cup {"tabela", "download", "reload"}

Charts ==
    {"grafico_status", "grafico_departamento", "grafico_barras",
     "grafico_comparativo", "grafico_temporal"}

----------------------------------------------------------------------------
(* The CSV export of line 600 and the CSV reader of line 58.  A CSV text is *)
(* a sequence of lines, a line the sequence of its fields as they are       *)
(* written between the commas.                                              *)

BOM == "BOM"
Quote == "\""

\* csv.QUOTE_MINIMAL: a field is quoted when it holds a delimiter or a quote
NeedsQuote(v) == \E k \in 1..Len(v) : v[k] \in {",", Quote}

RECURSIVE DoubleQuotes(_)
DoubleQuotes(v) ==
    IF v = <<>> THEN <<>>
    ELSE (IF Head(v) = Quote THEN <<Quote, Quote>> ELSE <<Head(v)>>)
         \o DoubleQuotes(Tail(v))

\* the text to_csv writes for a cell: nothing for a missing value
CsvField(v) ==
    IF v = NA THEN <<>>
    ELSE IF NeedsQuote(v) THEN <<Quote>> \o DoubleQuotes(v) \o <<Quote>>
    ELSE v

\* the text to_csv writes for a cell of the datetime column
CsvDate(ts, offsets) == IF ts = NaT THEN <<>> ELSE DateStr(ts, offsets)

\* df_filtrado.to_csv(index=False), line 600: the header, then one line per
\* row; the datetime column, when there is one, is the last
to_csv(t, offsets) ==
    <<[j \in 1..Len(t.columns) |-> CsvField(t.columns[j])]>>
    \o [i \in 1..Len(t.rows) |->
           [j \in 1..Len(t.rows[i].cells) |-> CsvField(t.rows[i].cells[j])]
           \o (IF HasColumn(t, c_data_convertida)
               THEN <<CsvDate(t.rows[i].dt, offsets)>> ELSE <<>>)]

\* .encode('utf-8-sig'), line 600: the byte-order mark comes first
encode_utf_8_sig(lines) == [lines EXCEPT ![1][1] = <<BOM>> \o @]

\* a doubled quote inside a quoted field is one quote
RECURSIVE UndoubleQuotes(_)
UndoubleQuotes(v) ==
    IF v = <<>> THEN <<>>
    ELSE IF Len(v) >= 2 /\ v[1] = Quote /\ v[2] = Quote
         THEN <<Quote>> \o UndoubleQuotes(SubSeq(v, 3, Len(v)))
         ELSE <<Head(v)>> \o UndoubleQuotes(Tail(v))

\* the value of a field as the reader takes it
Unquote(f) ==
    IF Len(f) >= 2 /\ Head(f) = Quote /\ f[Len(f)] = Quote
    THEN UndoubleQuotes(SubSeq(f, 2, Len(f) - 1))
    ELSE f

\* texts read_csv takes for a missing value (the ones the model can write)
NaValues ==
    {<<>>, <<"n", "a", "n">>, <<"N", "a", "N">>, <<"N", "A">>, <<"n", "u", "l", "l">>,
     <<"N", "o", "n", "e">>}

IsInteger(v) == v # <<>> /\ \A k \in 1..Len(v) : v[k] \in Digits

\* str(int(v)): the digits without the leading zeros
RECURSIVE IntText(_)
IntText(v) == IF Len(v) > 1 /\ Head(v) = "0" THEN IntText(Tail(v)) ELSE v

\* the type inference of read_csv on one column: when every value present
\* is an integer the column is numeric, int64 without a missing value and
\* float64 with one
Inferir(values) ==
    LET present == {k \in 1..Len(values) : values[k] # NA}
    IN  IF present # {} /\ \A k \in present : IsInteger(values[k])
        THEN [k \in 1..Len(values) |->
                 IF values[k] = NA THEN NA
                 ELSE IntText(values[k])
                      \o (IF present = 1..Len(values) THEN <<>> ELSE <<".", "0">>)]
        ELSE values

\* the value read_csv gives field j of a line
Campo(line, j) ==
    IF j > Len(line) \/ Unquote(line[j]) \in NaValues THEN NA ELSE Unquote(line[j])

\* the BOM-skipping reader
SemBOM(f) == IF f # <<>> /\ Head(f) = BOM THEN Tail(f) ELSE f

\* pd.read_csv(file, encoding='utf-8') on the lines of a file, line 58: the
\* byte-order mark is skipped, blank lines are skipped, the first line is
\* the header
read_csv(lines) ==
    LET header == [j \in 1..Len(lines[1]) |->
                     Unquote(IF j = 1 THEN SemBOM(lines[1][j]) ELSE lines[1][j])]
        corpo  == SelectSeq(Tail(lines), LAMBDA l : l # <<>> /\ l # <<<<>>>>)
        lidos  == [j \in 1..Len(header) |->
                     Inferir([i \in 1..Len(corpo) |-> Campo(corpo[i], j)])]
    IN  [columns |-> header,
         rows    |-> [i \in 1..Len(corpo) |->
                        Row([j \in 1..Len(header) |-> lidos[j][i]])]]

\* the downloaded file, as the upload widget hands it to carregar_dados
Baixado(lines, offsets) == File(".csv", "utf-8", TRUE, offsets, read_csv(lines))

----------------------------------------------------------------------------
(* The render pass *)

BuscaPool == {<<>>, <<"A", "N">>, <<".">>, <<"(">>}

\* the instants datetime.now() returns in the model: 2024-03-05 12:00 and
\* 2024-05-27 00:00
Agoras == {Midnight(5, 3) + 1, Midnight(27, 5)}

Init ==
    /\ pc = "inicio"
    /\ uploaded_file = NoFile
    /\ df = NoTable
    /\ col_status = 0
    /\ col_departamento = 0
    /\ col_data = 0
    /\ todos_status = <<>>
    /\ todos_departamentos = <<>>
    /\ selecionar_todos_dept = TRUE
    /\ selecionar_todos_status = TRUE
    /\ dept_selecionados = <<>>
    /\ status_selecionados = <<>>
    /\ periodo = TodoPeriodo
    /\ busca = <<>>
    /\ agora = 0
    /\ erro_data = "none"
    /\ df_status = NoTable
    /\ df_periodo = NoTable
    /\ df_filtrado = NoTable
    /\ contagem_status = <<>>
    /\ csv = <<>>
    /\ tela = {}

\* lines 33-45: no file in the upload widget
SemArquivo ==
    /\ pc = "inicio"
    /\ tela' = {"info_upload"}
    /\ pc' = "parado"
    /\ UNCHANGED <<uploaded_file, df, col_status, col_departamento, col_data,
                   todos_status, todos_departamentos, selecionar_todos_dept,
                   selecionar_todos_status, dept_selecionados,
                   status_selecionados, periodo, busca, agora, erro_data,
                   df_status, df_periodo, df_filtrado, contagem_status, csv>>

\* line 27: the user uploads a file
Upload ==
    /\ pc = "inicio"
    /\ \E f \in Files : uploaded_file' = f
    /\ pc' = "carregar"
    /\ UNCHANGED <<df, col_status, col_departamento, col_data, todos_status,
                   todos_departamentos, selecionar_todos_dept,
                   selecionar_todos_status, dept_selecionados,
                   status_selecionados, periodo, busca, agora, erro_data,
                   df_status, df_periodo, df_filtrado, contagem_status, tela,
                   csv>>

\* lines 73-77
CarregarDados ==
    /\ pc = "carregar"
    /\ \E rewound \in BOOLEAN :
         LET r == carregar_dados(uploaded_file, rewound)
         IN  IF ~r.ok \/ Empty(r.table)
             THEN /\ tela' = {"erro_carga"}
                  /\ pc' = "parado"
                  /\ df' = df
             ELSE /\ df' = r.table
                  /\ pc' = "identificar"
                  /\ tela' = tela
    /\ UNCHANGED <<uploaded_file, col_status, col_departamento, col_data,
                   todos_status, todos_departamentos, selecionar_todos_dept,
                   selecionar_todos_status, dept_selecionados,
                   status_selecionados, periodo, busca, agora, erro_data,
                   df_status, df_periodo, df_filtrado, contagem_status, csv>>

\* a column identification that goes on without a Status column
IdentificarColunasSemStop ==
    /\ pc = "identificar"
    /\ col_status' = Identificar(df.columns, "status", 1)
    /\ col_departamento' = Identificar(df.columns, "departamento", 1)
    /\ col_data' = Identificar(df.columns, "data", 1)
    /\ pc' = "normalizar"
    /\ tela' = IF col_status' = 0 THEN {"erro_status"} ELSE tela
    /\ UNCHANGED <<uploaded_file, df, todos_status, todos_departamentos,
                   selecionar_todos_dept, selecionar_todos_status,
                   dept_selecionados, status_selecionados, periodo, busca,
                   agora, erro_data, df_status, df_periodo, df_filtrado,
                   contagem_status, csv>>

\* lines 84-110
IdentificarColunas ==
    /\ pc = "identificar"
    /\ col_status' = Identificar(df.columns, "status", 1)
    /\ IF col_status' = 0
       THEN /\ tela' = {"erro_status"}
            /\ pc' = "parado"
            /\ UNCHANGED <<col_departamento, col_data>>
       ELSE /\ col_departamento' = Identificar(df.columns, "departamento", 1)
            /\ col_data' = Identificar(df.columns, "data", 1)
            /\ pc' = "normalizar"
            /\ tela' = tela
    /\ UNCHANGED <<uploaded_file, df, todos_status, todos_departamentos,
                   selecionar_todos_dept, selecionar_todos_status,
                   dept_selecionados, status_selecionados, periodo, busca,
                   agora, erro_data, df_status, df_periodo, df_filtrado,
                   contagem_status, csv>>

\* lines 116-129
ProcessarStatus ==
    /\ pc = "normalizar"
    /\ df' = ComDepartamento(ComStatus(df, col_status), col_departamento)
    /\ todos_status' = Todos(df', c_status_normalizado)
    /\ todos_departamentos' =
           IF col_departamento # 0 THEN Todos(df', c_departamento_normalizado)
           ELSE <<>>
    /\ pc' = "filtros"
    /\ UNCHANGED <<uploaded_file, col_status, col_departamento, col_data,
                   selecionar_todos_dept, selecionar_todos_status,
                   dept_selecionados, status_selecionados, periodo, busca,
                   agora, erro_data, df_status, df_periodo, df_filtrado,
                   contagem_status, tela, csv>>

\* what the multiselect of lines 146-151 and 167-172 can return: any of the
\* options
Selecoes(todos) == {SortedSeq(S) : S \in SUBSET Range(todos)}

\* lines 137-243: the sidebar widgets and the filters
AplicarFiltros ==
    /\ pc = "filtros"
    /\ \E cbd \in (IF col_departamento # 0 THEN BOOLEAN ELSE {TRUE}),
          cbs \in BOOLEAN,
          p \in (IF col_data # 0 THEN Range(Periodos) ELSE {TodoPeriodo}),
          q \in BuscaPool :
       \E sd \in (IF col_departamento # 0 /\ ~cbd THEN Selecoes(todos_departamentos)
                  ELSE {todos_departamentos}),
          ss \in (IF cbs THEN {todos_status} ELSE Selecoes(todos_status)) :
         LET t1 == FiltroDepartamento(df, col_departamento, sd)
             t2 == FiltroStatus(t1, ss)
             filtra == col_data # 0 /\ p # TodoPeriodo
         IN  \E now \in (IF filtra THEN Agoras ELSE {0}),
                err \in (IF filtra THEN ErrosData(t2, col_data, uploaded_file.offsets)
                         ELSE {"none"}) :
               LET t3 == FiltroPeriodo(t2, col_data, p, now, err)
               IN  /\ selecionar_todos_dept' = cbd
                   /\ selecionar_todos_status' = cbs
                   /\ dept_selecionados' = sd
                   /\ status_selecionados' = ss
                   /\ periodo' = p
                   /\ busca' = q
                   /\ agora' = now
                   /\ erro_data' = err
                   /\ df_status' = t2
                   /\ df_periodo' = t3
                   /\ IF BuscaFalha(t3, q)
                      THEN /\ df_filtrado' = t3
                           /\ tela' = (IF err # "none" THEN {"aviso_data"} ELSE {})
                                      \cup {"excecao"}
                           /\ pc' = "falhou"
                      ELSE /\ df_filtrado' = FiltroBusca(t3, q, uploaded_file.offsets)
                           /\ tela' = (IF err # "none" THEN {"aviso_data"} ELSE {})
                           /\ pc' = "apresentar"
    /\ UNCHANGED <<uploaded_file, df, col_status, col_departamento, col_data,
                   todos_status, todos_departamentos, contagem_status, csv>>

\* lines 248-625
Apresentar ==
    /\ pc = "apresentar"
    /\ contagem_status' = Contagem(df_filtrado)
    /\ csv' = encode_utf_8_sig(to_csv(df_filtrado, uploaded_file.offsets))
    /\ tela' = tela \cup Elementos(df_filtrado, contagem_status', col_departamento,
                                   col_data)
    /\ pc' = "fim"
    /\ UNCHANGED <<uploaded_file, df, col_status, col_departamento, col_data,
                   todos_status, todos_departamentos, selecionar_todos_dept,
                   selecionar_todos_status, dept_selecionados,
                   status_selecionados, periodo, busca, agora, erro_data,
                   df_status, df_periodo, df_filtrado>>

\* the page is loaded again (lines 616-625, or by the user): the script
\* starts from line 1 with nothing kept
Recarregar ==
    /\ pc \in {"parado", "falhou", "fim"}
    /\ pc' = "inicio"
    /\ uploaded_file' = NoFile
    /\ df' = NoTable
    /\ col_status' = 0
    /\ col_departamento' = 0
    /\ col_data' = 0
    /\ todos_status' = <<>>
    /\ todos_departamentos' = <<>>
    /\ selecionar_todos_dept' = TRUE
    /\ selecionar_todos_status' = TRUE
    /\ dept_selecionados' = <<>>
    /\ status_selecionados' = <<>>
    /\ periodo' = TodoPeriodo
    /\ busca' = <<>>
    /\ agora' = 0
    /\ erro_data' = "none"
    /\ df_status' = NoTable
    /\ df_periodo' = NoTable
    /\ df_filtrado' = NoTable
    /\ contagem_status' = <<>>
    /\ csv' = <<>>
    /\ tela' = {}

Next ==
    \/ SemArquivo
    \/ Upload
    \/ CarregarDados
    \/ IdentificarColunas
    \/ ProcessarStatus
    \/ AplicarFiltros
    \/ Apresentar
    \/ Recarregar

Spec == Init /\ [][Next]_vars

----------------------------------------------------------------------------
(* Column identification on its own: every sequence of at most MaxCols     *)
(* distinct column names of NamePool, in a sheet of one row                 *)

NamePool == {n_Status, n_SITUACAO, n_Estado, n_Setor, n_Data, n_Cliente}

Headers ==
    {h \in SeqsUpTo(NamePool, MaxCols) :
        /\ Len(h) >= 1
        /\ \A i, j \in 1..Len(h) : i # j => h[i] # h[j]}

InitCols ==
    /\ pc = "identificar"
    /\ \E h \in Headers :
         /\ uploaded_file = File(".xlsx", "utf-8", TRUE, "naive", Sheet(h, <<t_Ana>>))
         /\ df = Sheet(h, <<t_Ana>>)
    /\ col_status = 0
    /\ col_departamento = 0
    /\ col_data = 0
    /\ todos_status = <<>>
    /\ todos_departamentos = <<>>
    /\ selecionar_todos_dept = TRUE
    /\ selecionar_todos_status = TRUE
    /\ dept_selecionados = <<>>
    /\ status_selecionados = <<>>
    /\ periodo = TodoPeriodo
    /\ busca = <<>>
    /\ agora = 0
    /\ erro_data = "none"
    /\ df_status = NoTable
    /\ df_periodo = NoTable
    /\ df_filtrado = NoTable
    /\ contagem_status = <<>>
    /\ csv = <<>>
    /\ tela = {}

NextCols == IdentificarColunas

SpecCols == InitCols /\ [][NextCols]_vars

----------------------------------------------------------------------------
(* Properties *)

Filtrou == pc \in {"apresentar", "fim"}

CellsOf(t) == [i \in 1..Len(t.rows) |-> t.rows[i].cells]

JanelaDias ==
    CASE periodo = "Últimos 7 dias" -> 7
      [] periodo = "Últimos 15 dias" -> 15
      [] periodo = "Últimos 30 dias" -> 30
      [] periodo = "Últimos 90 dias" -> 90
      [] OTHER -> 0

\* the instant a date text of the uploaded sheets stands for, read with the
\* day before the month
DataEsperada(v) ==
    CASE v = d_0103 -> Midnight(1, 3)
      [] v = d_1502 -> Midnight(15, 2)
      [] v = d_2002 -> Midnight(20, 2)
      [] v = d_2702 -> Midnight(27, 2)
      [] v = d_0301 -> Midnight(3, 1)
      [] OTHER -> NaT

NaJanela(r) ==
    /\ DataEsperada(r.cells[col_data]) # NaT
    /\ DataEsperada(r.cells[col_data]) >= agora - 2 * JanelaDias

PredDepartamento(r) ==
    col_departamento # 0 => departamento_normalizado(df, r) \in Range(dept_selecionados)

PredStatus(r) == status_normalizado(df, r) \in Range(status_selecionados)

PredPeriodo(r) == (col_data # 0 /\ periodo # TodoPeriodo) => NaJanela(r)

PredBusca(r) ==
    busca # <<>> =>
        \E text \in {AsStr(r.cells[j]) : j \in 1..Len(r.cells)}
                    \cup (IF col_data # 0 /\ periodo # TodoPeriodo
                          THEN {DateStr(DataEsperada(r.cells[col_data]),
                                        uploaded_file.offsets)}
                          ELSE {}) :
            RegexSearch(Lower(busca), Lower(text))

\* C1: the Filtered Table is the sub-sequence of the full table, in its
\* order, of exactly the rows that satisfy the department, status, period
\* and free-text predicates together.
C1_FiltradoExato ==
    Filtrou =>
        CellsOf(df_filtrado) =
            CellsOf(FilterRows(df, {r \in RowsOf(df) : /\ PredDepartamento(r)
                                                        /\ PredStatus(r)
                                                        /\ PredPeriodo(r)
                                                        /\ PredBusca(r)}))

\* C2: with the select-all checkbox off and no status chosen, the Filtered
\* Table is empty.
C2_StatusVazio ==
    (Filtrou /\ ~selecionar_todos_status /\ status_selecionados = <<>>)
        => Len(df_filtrado.rows) = 0

\* C3: with a Department column, the select-all checkbox off and no
\* department chosen, the Filtered Table is empty; the department filter
\* is skipped only without a Department column.
C3_DepartamentoVazio ==
    /\ (Filtrou /\ col_departamento # 0 /\ ~selecionar_todos_dept
            /\ dept_selecionados = <<>>)
           => Len(df_filtrado.rows) = 0
    /\ (Filtrou /\ col_departamento # 0)
           => \A i \in 1..Len(df_filtrado.rows) :
                  departamento_normalizado(df_filtrado, df_filtrado.rows[i])
                      \in Range(dept_selecionados)

\* C4: the Status Counts, one per distinct Status Value of the Filtered
\* Table (the empty value included), sum to the number of its rows and are
\* in ascending order of Status Value.
RECURSIVE SomaQuantidades(_)
SomaQuantidades(c) ==
    IF c = <<>> THEN 0 ELSE Head(c).quantidade + SomaQuantidades(Tail(c))

C4_ContagemSoma ==
    pc = "fim" =>
        /\ SomaQuantidades(contagem_status) = Len(df_filtrado.rows)
        /\ {contagem_status[k].status : k \in 1..Len(contagem_status)}
               = StatusOf(df_filtrado)
        /\ \A k \in 1..(Len(contagem_status) - 1) :
               StrLess(contagem_status[k].status, contagem_status[k + 1].status)

C4_Witness ==
    /\ pc = "fim"
    /\ Len(contagem_status) = 2
    /\ contagem_status[1].status = <<>>
    /\ Len(df_filtrado.rows) >= 2

\* C5: when some column name matches a Status keyword, the Status column is
\* the earliest matching column.
StatusMatches == {j \in 1..Len(df.columns) : ColMatches("status", df.columns[j])}

C5_PrimeiraColunaStatus ==
    (pc \in {"normalizar", "parado"} /\ StatusMatches # {}) =>
        /\ col_status \in StatusMatches
        /\ \A j \in StatusMatches : col_status <= j

C5_Witness ==
    /\ pc = "normalizar"
    /\ Cardinality(StatusMatches) >= 2
    /\ col_status = 2
    /\ df.columns[2] = n_SITUACAO

\* C6: a load failure, an empty table or a missing Status column stops the
\* render with an error and nothing else on the page; past the column
\* identification the table is non-empty and has a Status column.
CargaFalha ==
    \/ ~uploaded_file.valid
    \/ Empty(DropEmptyCols(uploaded_file.table))

SemColunaStatus ==
    \A j \in 1..Len(DropEmptyCols(uploaded_file.table).columns) :
        ~ColMatches("status", DropEmptyCols(uploaded_file.table).columns[j])

NadaDepois ==
    /\ ~HasColumn(df, c_status_normalizado)
    /\ df_filtrado = NoTable
    /\ contagem_status = <<>>

C6_ErroFatalPara ==
    /\ (uploaded_file # NoFile /\ CargaFalha) => pc \in {"carregar", "parado"}
    /\ (uploaded_file # NoFile /\ SemColunaStatus)
           => pc \in {"carregar", "identificar", "parado"}
    /\ (pc = "parado" /\ uploaded_file # NoFile)
           => (tela \in {{"erro_carga"}, {"erro_status"}} /\ NadaDepois)
    /\ pc \in {"normalizar", "filtros", "apresentar", "falhou", "fim"}
           => /\ ~Empty(df)
              /\ col_status # 0
              /\ ColMatches("status", df.columns[col_status])

C6_Witness ==
    /\ pc = "parado"
    /\ uploaded_file.valid
    /\ ~CargaFalha
    /\ SemColunaStatus
    /\ tela = {"erro_status"}

\* C7 as claimed: in a Last-N-days window the rows that leave the period
\* filter are the rows with a parseable date not older than N days, whether
\* or not the step raised.
PeriodoExato ==
    /\ CellsOf(df_periodo) = CellsOf(FilterRows(df_status, {r \in RowsOf(df_status) : NaJanela(r)}))
    /\ \A i \in 1..Len(df_filtrado.rows) :
           DataEsperada(df_filtrado.rows[i].cells[col_data]) # NaT

BuscaLiteral(r) ==
    \E text \in RowTexts(df_periodo, r, uploaded_file.offsets) :
        Contains(Lower(text), Lower(busca))

C8_BuscaLiteral ==
    /\ (Filtrou /\ busca # <<>>) =>
           df_filtrado = FilterRows(df_periodo, {r \in RowsOf(df_periodo) : BuscaLiteral(r)})
    /\ (Filtrou /\ busca = <<>>) => df_filtrado = df_periodo

\* C9: the temporal chart is on the page iff a Date column exists and the
\* Filtered Table has two or more (calendar date, Status Value) groups,
\* whatever the period.
GruposTemporais ==
    {<<data_apenas(DataEsperada(df_filtrado.rows[i].cells[col_data])),
       status_normalizado(df_filtrado, df_filtrado.rows[i])>> :
        i \in {k \in 1..Len(df_filtrado.rows) :
                  DataEsperada(df_filtrado.rows[k].cells[col_data]) # NaT}}

C9_GraficoTemporal ==
    pc = "fim" =>
        ("grafico_temporal" \in tela
            <=> (col_data # 0 /\ Cardinality(GruposTemporais) >= 2))

\* C10: with an empty Filtered Table the render goes on: the warning takes
\* the place of the status cards, no department card and no chart is drawn,
\* the table and the download are on the page.
C10_SemRegistros ==
    /\ (pc = "fim" /\ Len(df_filtrado.rows) = 0) =>
           /\ "aviso_sem_registros" \in tela
           /\ "cards_status" \notin tela
           /\ "cards_departamento" \notin tela
           /\ tela \cap Charts = {}
           /\ {"tabela", "download"} \subseteq tela
    /\ (pc \in {"apresentar", "falhou"} /\ Len(df_filtrado.rows) = 0) =>
           (pc = "apresentar" /\ ENABLED Apresentar)

C10_Witness ==
    /\ pc = "fim"
    /\ Len(df.rows) > 0
    /\ Len(df_filtrado.rows) = 0
    /\ col_departamento # 0
    /\ "aviso_sem_registros" \in tela

\* C12: when the date-filter step raises, the table handed to the free-text
\* filter holds exactly the rows that left the status filter (none removed
\* for an unparseable date), the warning is on the page and the render goes
\* on to the free-text filter and the presentation.
C12_ErroDataPulaFiltro ==
    (pc \in {"apresentar", "falhou", "fim"} /\ erro_data # "none") =>
        /\ CellsOf(df_periodo) = CellsOf(df_status)
        /\ "aviso_data" \in tela
        /\ pc = "falhou" => BuscaFalha(df_periodo, busca)
        /\ pc = "apresentar" => ENABLED Apresentar

\* the part of C12 the code keeps: the warning is shown and the render goes on
C12_ErroDataNaoFatal ==
    (pc \in {"apresentar", "falhou", "fim"} /\ erro_data # "none") =>
        /\ "aviso_data" \in tela
        /\ pc = "falhou" => BuscaFalha(df_periodo, busca)
        /\ pc = "apresentar" => ENABLED Apresentar
        /\ erro_data = "convert" => df_periodo = df_status

\* v is raw without the blanks at its two ends
Aparado(raw, v) ==
    /\ v = <<>> \/ (Head(v) # " " /\ v[Len(v)] # " ")
    /\ \E a \in 0..Len(raw) :
           /\ a + Len(v) <= Len(raw)
           /\ SubSeq(raw, a + 1, a + Len(v)) = v
           /\ \A k \in (1..a) \cup ((a + Len(v) + 1)..Len(raw)) : raw[k] = " "

DeptEsperado(raw, v) == IF raw = NA THEN v = v_NaoEspecificado ELSE Aparado(raw, v)

StatusEsperado(raw, v) == IF raw = NA THEN v = <<>> ELSE Aparado(raw, v)

ElementosDepartamento == {"cards_departamento", "grafico_departamento", "grafico_comparativo"}

\* C13: past the normalisation every row's Department Value is the trimmed
\* text of its Department cell, or 'Não especificado' for a missing cell;
\* without a Department column it is 'Todos' for every row, the department
\* filter removes no row and no department card or chart is on the page.
\* Every row's Status Value is the trimmed text of its Status cell, or the
\* empty text for a missing cell.
C13_ValoresDerivados ==
    pc \in {"filtros", "apresentar", "falhou", "fim"} =>
        /\ \A i \in 1..Len(df.rows) :
               /\ StatusEsperado(df.rows[i].cells[col_status],
                                 status_normalizado(df, df.rows[i]))
               /\ IF col_departamento # 0
                  THEN DeptEsperado(df.rows[i].cells[col_departamento],
                                    departamento_normalizado(df, df.rows[i]))
                  ELSE departamento_normalizado(df, df.rows[i]) = v_Todos
        /\ (col_departamento = 0 /\ pc # "filtros") =>
               /\ df_status = FiltroStatus(df, status_selecionados)
               /\ tela \cap ElementosDepartamento = {}

C13_Witness ==
    /\ pc = "fim"
    /\ col_departamento # 0
    /\ \E i \in 1..Len(df.rows) :
           /\ df.rows[i].cells[col_departamento] = NA
           /\ departamento_normalizado(df, df.rows[i]) = v_NaoEspecificado
           /\ df.rows[i].cells[col_status] = v_Blank
           /\ status_normalizado(df, df.rows[i]) = <<>>
    /\ \E i \in 1..Len(df.rows) :
           /\ df.rows[i].cells[col_status] = v_AbertaSp
           /\ status_normalizado(df, df.rows[i]) = v_Aberta

\* the same without a Department column
C13_SemDepartamento ==
    /\ pc = "fim"
    /\ col_departamento = 0
    /\ Len(df_filtrado.rows) >= 2
    /\ \A i \in 1..Len(df.rows) : departamento_normalizado(df, df.rows[i]) = v_Todos

\* the columns of the Filtered Table that came from the uploaded sheet
ColunasOriginais ==
    {j \in 1..Len(df_filtrado.columns) :
        df_filtrado.columns[j] \notin {c_status_normalizado, c_departamento_normalizado,
                                       c_data_convertida}}

\* what carregar_dados returns for the downloaded file
Recarregado(rewound) == carregar_dados(Baixado(csv, uploaded_file.offsets), rewound)

MesmasLinhas(t) == Len(t.rows) = Len(df_filtrado.rows)

MesmosValores(t, j) ==
    \A i \in 1..Len(df_filtrado.rows) :
        /\ HasColumn(t, df_filtrado.columns[j])
        /\ i <= Len(t.rows)
        /\ Cell(t, t.rows[i], df_filtrado.columns[j]) = df_filtrado.rows[i].cells[j]

RoundTrip(r) ==
    /\ r.ok
    /\ MesmasLinhas(r.table)
    /\ \A j \in ColunasOriginais : MesmosValores(r.table, j)

\* C11: the exported CSV, loaded again by carregar_dados, gives a table with
\* as many rows as the Filtered Table and, for every column that came from
\* the uploaded sheet, the same value in every row.
C11_ExportRoundTrip ==
    pc = "fim" => \A rewound \in BOOLEAN : RoundTrip(Recarregado(rewound))

====
